---- MODULE Spec2Model ----
(***************************************************************************)
(* Ventur: pitch-deck and data-room pages of the React client, the shared  *)
(* axios client, and the record store / analysis flow they talk to.        *)
(*                                                                         *)
(* The client (src/frontend/src/pages/DataRoomPage.js, PitchDeckPage in    *)
(* src/unnamed/part_003, src/frontend/src/services/api.js) is translated   *)
(* from its source.  The FastAPI backend is not part of the sources; the   *)
(* definitions that stand for it (the Srv and Job operators, normalize)    *)
(* follow spec.md sections 4 and 5.                                        *)
(*                                                                         *)
(* A JavaScript value that may be null/undefined is a sequence of length   *)
(* 0 (absent) or 1 (present): selectedDoc = <<>> is `null`.                *)
(***************************************************************************)
EXTENDS Bags, FiniteSets, Integers, Sequences, TLC

\* ---------------------------------------------------------------- bounds
MaxDocs == 1          \* records the record store can hold
MaxUploads == 2       \* records the store can hold where uploads are studied
MaxInFlight == 2      \* HTTP requests in flight at once
MaxRecords == 2       \* records in the tenant view of the record store
MaxWire == 1          \* requests of the shared client on the wire at once
MaxHistory == 3       \* records of the caller when the history page opens
MaxTime == 3          \* latest creation time of a record
DayLength == 2        \* creation times per calendar day
MaxPerCategory == 1   \* data-room documents of one category on the dashboard
MaxListed == 2        \* records in the store where analyses are studied
MaxRedirects == 3     \* redirects followed after one navigation
MaxEntries == 2       \* entries of the browser history behind the current one

\* ------------------------------------------------------------ vocabulary
Statuses == {"uploaded", "analyzing", "analyzed", "error"}

\* Two of the eight data-room categories; a pitch deck has no category.
Categories == {"financials", "legal"}
NoCategory == ""

\* What the external analysis provider may answer (spec.md section 8):
\* a schema-conforming JSON text, an unparseable text, an empty text,
\* or no answer at all within the time bound.
ValidJson == "{\"overall_score\": 7}"
PlainText == "Error: rate limited"
EmptyText == ""
ProviderTimeout == "<timeout>"
ProviderAnswers == {ValidJson, PlainText, EmptyText, ProviderTimeout}

VARIABLES
    page,              \* which page is mounted: "data_room" or "pitch_deck"
    deckId,            \* PitchDeckPage: useParams().deckId (<<>> = no :deckId)
    categories,        \* DataRoomPage: categories state (set of values)
    documents,         \* DataRoomPage: documents / PitchDeckPage: pitchDecks
    selectedCategory,  \* DataRoomPage: selectedCategory (<<>> = null)
    selectedDoc,       \* DataRoomPage: selectedDoc / PitchDeckPage: selectedDeck
    uploading,         \* uploading flag
    analyzing,         \* analyzing flag
    loading,           \* loading flag
    uploadCategory,    \* DataRoomPage: uploadCategory ('' = none)
    toast,             \* the toast call the last step made (<<>> = none)
    reqs,              \* bag of HTTP requests in flight
    srv,               \* record store: DocIds -> <<>> or <<record>>
    jobs,              \* analysis invoker: records being analysed
    deleted,           \* record store: ids of the records that were deleted
    token,             \* localStorage['ventur_token'] (<<>> = not stored)
    wire,              \* requests as sent by the shared axios client
    db,                \* record owners, for the tenant-isolation view
    seen,              \* what each caller has been shown or has changed
    history,           \* HistoryPage: history state
    clearing,          \* HistoryPage: clearing flag
    deleting,          \* HistoryPage: deleting (<<>> = null, else the item id)
    stats,             \* Dashboard: stats (<<>> = null)
    recentPitchDecks,  \* Dashboard: recentPitchDecks
    records,           \* the service's records of all users, both types
    location,          \* BrowserRouter: the path of the current location
    user,              \* useAuth().user (<<>> = null)
    authLoading,       \* useAuth().loading
    redirects,         \* <Navigate replace /> rendered since the last navigation
    visited,           \* the paths those redirects left
    historyStack       \* BrowserRouter: the history entries behind the current one

pageVars == <<page, deckId, categories, documents, selectedCategory, selectedDoc,
              uploading, analyzing, loading, uploadCategory, toast, reqs,
              srv, jobs, deleted>>
apiVars == <<token, wire, db, seen>>
viewVars == <<history, clearing, deleting, stats, recentPitchDecks, records>>
routeVars == <<location, user, authLoading, redirects, visited, historyStack>>
vars == <<page, deckId, categories, documents, selectedCategory, selectedDoc,
          uploading, analyzing, loading, uploadCategory, toast, reqs,
          srv, jobs, deleted, token, wire, db, seen,
          history, clearing, deleting, stats, recentPitchDecks, records,
          location, user, authLoading, redirects, visited, historyStack>>

\* The ids the record store can give out.
DocIds == DOMAIN srv

\* ------------------------------------------------------------- helpers
Range(s) == {s[i] : i \in 1..Len(s)}

RECURSIVE SeqMap(_, _, _)
\* prev.map(d => d.id === id ? data : d)
SeqMap(s, id, data) ==
    IF s = <<>> THEN <<>>
    ELSE <<(IF Head(s).id = id THEN data ELSE Head(s))>> \o SeqMap(Tail(s), id, data)

\* ------------------------------------------------------ record store side
\* Result Normalizer (spec.md 4.3): strict parse of the expected schema,
\* otherwise the raw text verbatim under raw_feedback.
normalize(text) ==
    IF text = ValidJson
    THEN [raw_feedback |-> <<>>, overall_score |-> <<7>>]
    ELSE [raw_feedback |-> <<text>>, overall_score |-> <<>>]

\* A record as the store keeps it and as every endpoint returns it.
Record(id, status, category, analysis) ==
    [id |-> id, status |-> status, category |-> category, analysis |-> analysis]

Exists(id) == id \in DocIds /\ srv[id] # <<>>

\* The id the next created record gets (ids are never used twice); outside
\* DocIds when the store is full.
NextId == Cardinality({i \in DocIds : Exists(i)} \cup deleted) + 1

RECURSIVE ListFrom(_, _)
\* list(owner, filter?): newest-created first (the larger id is the newer).
ListFrom(i, cat) ==
    IF i = 0 THEN <<>>
    ELSE (IF Exists(i) /\ (cat = <<>> \/ srv[i][1].category = cat[1])
          THEN srv[i] ELSE <<>>) \o ListFrom(i - 1, cat)

SrvList(cat) == ListFrom(Cardinality(DocIds), cat)

\* The store a page can find when it is mounted: empty, or holding one
\* record of an earlier visit in any state the flow below leaves behind.
EarlierRecords(cat) ==
    {<<>>}
    \cup {<<Record(1, "uploaded", cat, <<>>)>>,
          <<Record(1, "error", cat, <<>>)>>,
          <<Record(1, "analyzed", cat, <<[analysis |-> normalize(ValidJson)]>>)>>,
          <<Record(1, "analyzed", cat, <<[analysis |-> normalize(PlainText)]>>)>>}

\* ------------------------------------------------------------- requests
\* A request of the page to the service, and later its answer: doc is the
\* record id in the path, cat the category parameter or form field, file
\* the file form field; stage "done" carries ok, data and the error detail.
\* closure is what the awaiting handler captured of the render it was
\* created in (only handleDelete reads state after its await); api names
\* the endpoint family where the kind alone does not.
Req(kind, doc, cat, file) ==
    [kind |-> kind, doc |-> doc, cat |-> cat, file |-> file, stage |-> "sent",
     ok |-> FALSE, data |-> <<>>, detail |-> <<>>,
     closure |-> [selected |-> <<>>, list |-> <<>>], api |-> ""]

\* services/api.js: the calls of pitchDeckAPI and dataRoomAPI.  The kind
\* names the caller that awaits the answer.
pitchDeckAPI_upload(file) == Req("upload", 0, <<>>, file)
pitchDeckAPI_analyze(id) == Req("analyze", id, <<>>, <<>>)
pitchDeckAPI_getAll == Req("loadPitchDecks", 0, <<>>, <<>>)
pitchDeckAPI_getOne(id) == Req("loadSingleDeck", id, <<>>, <<>>)
pitchDeckAPI_delete(id) == [Req("delete", id, <<>>, <<>>) EXCEPT !.api = "pitch-deck"]
dataRoomAPI_delete(docId) == [Req("delete", docId, <<>>, <<>>) EXCEPT !.api = "data-room"]
dataRoomAPI_upload(file, category) == Req("upload", 0, <<category>>, file)
dataRoomAPI_analyze(docId) == Req("analyze", docId, <<>>, <<>>)
dataRoomAPI_getAll(category) == Req("loadDocuments", 0, category, <<>>)
\* Promise.all([dataRoomAPI.getCategories(), dataRoomAPI.getAll()])
dataRoomAPI_getCategories_getAll == Req("loadData", 0, <<>>, <<>>)

Answered(r, ok, data, detail) ==
    [r EXCEPT !.stage = "done", !.ok = ok, !.data = data, !.detail = detail]

InFlight(kind) == {r \in BagToSet(reqs) : r.kind = kind}

RECURSIVE SumCopies(_, _)
SumCopies(S, B) ==
    IF S = {} THEN 0
    ELSE LET r == CHOOSE x \in S : TRUE
         IN CopiesIn(r, B) + SumCopies(S \ {r}, B)

\* How many requests of a kind are in flight in bag B.
Count(kind, B) == SumCopies({r \in BagToSet(B) : r.kind = kind}, B)

Send(r) == reqs (+) SetToBag({r})
Drop(r) == reqs (-) SetToBag({r})
Replace(r, q) == (reqs (-) SetToBag({r})) (+) SetToBag({q})

Toast(level, msg) == <<[level |-> level, msg |-> msg]>>

\* ===================================================== DataRoomPage.js
\* const analysis = selectedDoc?.analysis?.analysis;
analysis ==
    IF selectedDoc = <<>> THEN <<>>
    ELSE IF selectedDoc[1].analysis = <<>> THEN <<>>
    ELSE <<selectedDoc[1].analysis[1].analysis>>

\* JavaScript truthiness of a string that may be undefined.
TruthyString(s) == s # <<>> /\ s[1] # ""

\* DataRoomAnalysisDisplay without the raw_feedback branch.
DataRoomAnalysisDisplay_no_raw(a) ==
    IF a = <<>> THEN [view |-> "null", text |-> <<>>]
    ELSE [view |-> "tabs", text |-> <<>>]

\* DataRoomAnalysisDisplay({ analysis }): what the component returns.
DataRoomAnalysisDisplay(a) ==
    IF a = <<>> THEN [view |-> "null", text |-> <<>>]
    ELSE IF TruthyString(a[1].raw_feedback)
         THEN [view |-> "raw", text |-> a[1].raw_feedback]
         ELSE [view |-> "tabs", text |-> <<>>]

\* AnalysisDisplay({ analysis }) of the pitch-deck page.
AnalysisDisplay(a) ==
    IF a = <<>> THEN [view |-> "null", text |-> <<>>]
    ELSE IF TruthyString(a[1].raw_feedback)
         THEN [view |-> "raw", text |-> a[1].raw_feedback]
         ELSE [view |-> "tabs", text |-> <<>>]

\* The panel testing analysis.raw_feedback where the page tests analysis.
DataRoomPanel_raw_only ==
    IF selectedDoc = <<>> THEN [view |-> "select", text |-> <<>>]
    ELSE IF selectedDoc[1].status = "analyzing"
         THEN [view |-> "spinner", text |-> <<>>]
         ELSE IF analysis # <<>> /\ TruthyString(analysis[1].raw_feedback)
              THEN DataRoomAnalysisDisplay(analysis)
              ELSE [view |-> "ready", text |-> <<>>]

\* The right-hand panel of the data-room page.
DataRoomPanel ==
    IF selectedDoc = <<>> THEN [view |-> "select", text |-> <<>>]
    ELSE IF selectedDoc[1].status = "analyzing"
         THEN [view |-> "spinner", text |-> <<>>]
         ELSE IF analysis # <<>> THEN DataRoomAnalysisDisplay(analysis)
              ELSE [view |-> "ready", text |-> <<>>]

\* The right-hand panel of the pitch-deck page.
PitchDeckPanel ==
    IF selectedDoc = <<>> THEN [view |-> "select", text |-> <<>>]
    ELSE IF selectedDoc[1].status = "analyzing"
         THEN [view |-> "spinner", text |-> <<>>]
         ELSE IF analysis # <<>> THEN AnalysisDisplay(analysis)
              ELSE [view |-> "ready", text |-> <<>>]

Panel == IF page = "data_room" THEN DataRoomPanel ELSE PitchDeckPanel

\* analyze-doc-btn with disabled={analyzing} only.
analyze_doc_btn_enabled_flag_only ==
    /\ selectedDoc # <<>>
    /\ selectedDoc[1].status # "analyzed"
    /\ ~analyzing

\* analyze-doc-btn: rendered unless analyzed, disabled while analyzing.
analyze_doc_btn_enabled ==
    /\ selectedDoc # <<>>
    /\ selectedDoc[1].status # "analyzed"
    /\ ~(analyzing \/ selectedDoc[1].status = "analyzing")

\* reanalyze-doc-btn: rendered for an analyzed document, never disabled.
reanalyze_doc_btn_enabled ==
    /\ selectedDoc # <<>>
    /\ selectedDoc[1].status = "analyzed"

\* analyze-btn of the pitch-deck page.
analyze_btn_enabled ==
    /\ selectedDoc # <<>>
    /\ selectedDoc[1].status # "analyzed"
    /\ ~(analyzing \/ selectedDoc[1].status = "analyzing")

\* reanalyze-btn of the pitch-deck page.
reanalyze_btn_enabled ==
    /\ selectedDoc # <<>>
    /\ selectedDoc[1].status = "analyzed"

\* file-input: disabled={!uploadCategory || uploading}
file_input_disabled == uploadCategory = "" \/ uploading

\* The file the change event carries: e.target.files?.[0]
Files == {<<>>, <<"deck.pdf">>}

\* getDocCountByCategory(categoryValue): the number on a category card.
getDocCountByCategory(categoryValue) ==
    Len(SelectSeq(documents, LAMBDA d : d.category = categoryValue))

\* --------------------------------------------------------------- mount
MountRequests(p, id) ==
    IF p = "data_room"
    THEN SetToBag({dataRoomAPI_getCategories_getAll, dataRoomAPI_getAll(<<>>)})
    ELSE SetToBag({pitchDeckAPI_getAll}
                  \cup (IF id = <<>> THEN {} ELSE {pitchDeckAPI_getOne(id[1])}))

\* A page right after its first render and effects, with a store of n ids.
Mounted(n) ==
    /\ page \in {"data_room", "pitch_deck"}
    /\ deckId \in (IF page = "pitch_deck" THEN {<<>>, <<1>>, <<2>>} ELSE {<<>>})
    /\ categories = {}
    /\ documents = <<>>
    /\ selectedCategory = <<>>
    /\ selectedDoc = <<>>
    /\ uploading = FALSE
    /\ analyzing = FALSE
    /\ loading = TRUE
    /\ uploadCategory = ""
    /\ toast = <<>>
    /\ reqs = MountRequests(page, deckId)
    /\ \E first \in EarlierRecords(IF page = "data_room" THEN "financials" ELSE NoCategory) :
           srv = [i \in 1..n |-> IF i = 1 THEN first ELSE <<>>]
    /\ jobs = {}
    /\ deleted = {}

InitPage == Mounted(MaxDocs)

\* ------------------------------------------------------------ loading
\* loadData: both responses of Promise.all have arrived.
loadData(r) ==
    /\ r \in InFlight("loadData") /\ r.stage = "done"
    /\ IF r.ok
       THEN /\ categories' = Categories
            /\ documents' = r.data
            /\ toast' = <<>>
       ELSE /\ toast' = Toast("error", "Failed to load data room")
            /\ UNCHANGED <<categories, documents>>
    /\ loading' = FALSE
    /\ reqs' = Drop(r)
    /\ UNCHANGED <<page, deckId, selectedCategory, selectedDoc, uploading, analyzing,
                   uploadCategory, srv, jobs, deleted>>

\* loadDocuments: the list response has arrived.
loadDocuments(r) ==
    /\ r \in InFlight("loadDocuments") /\ r.stage = "done"
    /\ IF r.ok
       THEN documents' = r.data
       ELSE UNCHANGED documents
    /\ reqs' = Drop(r)
    /\ toast' = <<>>
    /\ UNCHANGED <<page, deckId, categories, selectedCategory, selectedDoc, uploading,
                   analyzing, loading, uploadCategory, srv, jobs, deleted>>

\* Category card onClick: setSelectedCategory(isSelected ? null : cat.value),
\* then the effect on [selectedCategory] calls loadDocuments.
category_click(c) ==
    /\ page = "data_room"
    /\ c \in categories
    /\ BagCardinality(reqs) < MaxInFlight
    /\ selectedCategory' = IF selectedCategory = <<c>> THEN <<>> ELSE <<c>>
    /\ reqs' = Send(dataRoomAPI_getAll(selectedCategory'))
    /\ toast' = <<>>
    /\ UNCHANGED <<page, deckId, categories, documents, selectedDoc, uploading, analyzing,
                   loading, uploadCategory, srv, jobs, deleted>>

\* doc-item onClick: setSelectedDoc(doc); the list shows once loading is over.
doc_item_click(doc) ==
    /\ page = "data_room"
    /\ ~loading
    /\ doc \in Range(documents)
    /\ selectedDoc' = <<doc>>
    /\ toast' = <<>>
    /\ UNCHANGED <<page, deckId, categories, documents, selectedCategory, uploading,
                   analyzing, loading, uploadCategory, reqs, srv, jobs, deleted>>

\* Select onValueChange={setUploadCategory}
setUploadCategory(c) ==
    /\ page = "data_room"
    /\ c \in categories
    /\ uploadCategory' = c
    /\ toast' = <<>>
    /\ UNCHANGED <<page, deckId, categories, documents, selectedCategory, selectedDoc,
                   uploading, analyzing, loading, reqs, srv, jobs, deleted>>

\* ------------------------------------------------------------- upload
\* handleFileUpload without its guard on the file and the category.
handleFileUpload_unguarded(file) ==
    /\ page = "data_room"
    /\ ~file_input_disabled
    /\ BagCardinality(reqs) < MaxInFlight
    /\ uploading' = TRUE
    /\ reqs' = Send(dataRoomAPI_upload(file, uploadCategory))
    /\ toast' = <<>>
    /\ UNCHANGED <<page, deckId, categories, documents, selectedCategory, selectedDoc,
                   analyzing, loading, uploadCategory, srv, jobs, deleted>>

\* handleFileUpload up to the await: the change event of file-input.
handleFileUpload(file) ==
    /\ page = "data_room"
    /\ ~file_input_disabled
    /\ IF file = <<>> \/ uploadCategory = ""
       THEN /\ toast' = Toast("error", "Please select a category first")
            /\ UNCHANGED <<uploading, reqs>>
       ELSE /\ BagCardinality(reqs) < MaxInFlight
            /\ uploading' = TRUE
            /\ reqs' = Send(dataRoomAPI_upload(file, uploadCategory))
            /\ toast' = <<>>
    /\ UNCHANGED <<page, deckId, categories, documents, selectedCategory, selectedDoc,
                   analyzing, loading, uploadCategory, srv, jobs, deleted>>

\* handleFileUpload after the await.
handleFileUpload_settled(r) ==
    /\ page = "data_room"
    /\ r \in InFlight("upload") /\ r.stage = "done"
    /\ IF r.ok
       THEN /\ toast' = Toast("success", "Document uploaded successfully!")
            /\ documents' = r.data \o documents
            /\ selectedDoc' = r.data
       ELSE /\ toast' = Toast("error", IF r.detail # <<>> THEN r.detail[1] ELSE "Upload failed")
            /\ UNCHANGED <<documents, selectedDoc>>
    /\ uploading' = FALSE
    /\ reqs' = Drop(r)
    /\ UNCHANGED <<page, deckId, categories, selectedCategory, analyzing, loading,
                   uploadCategory, srv, jobs, deleted>>

\* ------------------------------------------------------------ analyze
\* handleAnalyze(docId) up to the await.
handleAnalyze(docId) ==
    /\ analyzing' = TRUE
    /\ reqs' = Send(dataRoomAPI_analyze(docId))
    /\ toast' = <<>>
    /\ UNCHANGED <<page, deckId, categories, documents, selectedCategory, selectedDoc,
                   uploading, loading, uploadCategory, srv, jobs, deleted>>

\* onClick of analyze-doc-btn and of reanalyze-doc-btn.
analyze_doc_click ==
    /\ page = "data_room"
    /\ analyze_doc_btn_enabled \/ reanalyze_doc_btn_enabled
    /\ BagCardinality(reqs) < MaxInFlight
    /\ handleAnalyze(selectedDoc[1].id)

\* handleAnalyze after the await.
handleAnalyze_settled(r) ==
    /\ page = "data_room"
    /\ r \in InFlight("analyze") /\ r.stage = "done"
    /\ IF r.ok
       THEN /\ selectedDoc' = r.data
            /\ documents' = SeqMap(documents, r.doc, r.data[1])
            /\ toast' = Toast("success", "Analysis complete!")
       ELSE /\ toast' = Toast("error", "Analysis failed. Please try again.")
            /\ UNCHANGED <<selectedDoc, documents>>
    /\ analyzing' = FALSE
    /\ reqs' = Drop(r)
    /\ UNCHANGED <<page, deckId, categories, selectedCategory, uploading, loading,
                   uploadCategory, srv, jobs, deleted>>

\* ------------------------------------------------------------- delete
\* prev.filter(d => d.id !== id)
Without(s, id) == SelectSeq(s, LAMBDA d : d.id # id)

\* handleDelete(docId) up to the await, window.confirm answered with OK.
\* onClick of delete-doc-btn, which the panel of the selected document shows.
handleDelete(docId) ==
    /\ page = "data_room"
    /\ selectedDoc # <<>> /\ selectedDoc[1].id = docId
    /\ BagCardinality(reqs) < MaxInFlight
    /\ reqs' = Send([dataRoomAPI_delete(docId) EXCEPT !.closure.selected = selectedDoc])
    /\ toast' = <<>>
    /\ UNCHANGED <<page, deckId, categories, documents, selectedCategory, selectedDoc,
                   uploading, analyzing, loading, uploadCategory, srv, jobs, deleted>>

\* handleDelete after the await; selectedDoc is the one of the click.
handleDelete_settled(r) ==
    /\ page = "data_room"
    /\ r \in InFlight("delete") /\ r.stage = "done"
    /\ IF r.ok
       THEN /\ documents' = Without(documents, r.doc)
            /\ IF r.closure.selected # <<>> /\ r.closure.selected[1].id = r.doc
               THEN selectedDoc' = <<>>
               ELSE UNCHANGED selectedDoc
            /\ toast' = Toast("success", "Document deleted")
       ELSE /\ toast' = Toast("error", "Failed to delete document")
            /\ UNCHANGED <<documents, selectedDoc>>
    /\ reqs' = Drop(r)
    /\ UNCHANGED <<page, deckId, categories, selectedCategory, uploading, analyzing,
                   loading, uploadCategory, srv, jobs, deleted>>

\* ==================================================== PitchDeckPage
\* loadPitchDecks selecting the first deck whatever the route says.
loadPitchDecks_first_deck(r) ==
    /\ r \in InFlight("loadPitchDecks") /\ r.stage = "done"
    /\ IF r.ok
       THEN /\ documents' = r.data
            /\ IF Len(r.data) > 0
               THEN selectedDoc' = <<r.data[1]>>
               ELSE UNCHANGED selectedDoc
            /\ toast' = <<>>
       ELSE /\ toast' = Toast("error", "Failed to load pitch decks")
            /\ UNCHANGED <<documents, selectedDoc>>
    /\ loading' = FALSE
    /\ reqs' = Drop(r)
    /\ UNCHANGED <<page, deckId, categories, selectedCategory, uploading, analyzing,
                   uploadCategory, srv, jobs, deleted>>

\* loadPitchDecks: the list response has arrived.
loadPitchDecks(r) ==
    /\ r \in InFlight("loadPitchDecks") /\ r.stage = "done"
    /\ IF r.ok
       THEN /\ documents' = r.data
            /\ IF deckId = <<>> /\ Len(r.data) > 0
               THEN selectedDoc' = <<r.data[1]>>
               ELSE UNCHANGED selectedDoc
            /\ toast' = <<>>
       ELSE /\ toast' = Toast("error", "Failed to load pitch decks")
            /\ UNCHANGED <<documents, selectedDoc>>
    /\ loading' = FALSE
    /\ reqs' = Drop(r)
    /\ UNCHANGED <<page, deckId, categories, selectedCategory, uploading, analyzing,
                   uploadCategory, srv, jobs, deleted>>

\* loadSingleDeck(id): the single-deck response has arrived.
loadSingleDeck(r) ==
    /\ r \in InFlight("loadSingleDeck") /\ r.stage = "done"
    /\ IF r.ok
       THEN /\ selectedDoc' = r.data
            /\ toast' = <<>>
       ELSE /\ toast' = Toast("error", "Failed to load pitch deck")
            /\ UNCHANGED selectedDoc
    /\ reqs' = Drop(r)
    /\ UNCHANGED <<page, deckId, categories, documents, selectedCategory, uploading,
                   analyzing, loading, uploadCategory, srv, jobs, deleted>>

\* deck-item onClick: setSelectedDeck(deck)
deck_item_click(deck) ==
    /\ page = "pitch_deck"
    /\ ~loading
    /\ deck \in Range(documents)
    /\ selectedDoc' = <<deck>>
    /\ toast' = <<>>
    /\ UNCHANGED <<page, deckId, categories, documents, selectedCategory, uploading,
                   analyzing, loading, uploadCategory, reqs, srv, jobs, deleted>>

\* onDrop(acceptedFiles) up to the await; the dropzone is never disabled.
onDrop(file) ==
    /\ page = "pitch_deck"
    /\ BagCardinality(reqs) < MaxInFlight
    /\ IF file = <<>>
       THEN UNCHANGED <<uploading, reqs>>
       ELSE /\ uploading' = TRUE
            /\ reqs' = Send(pitchDeckAPI_upload(file))
    /\ toast' = <<>>
    /\ UNCHANGED <<page, deckId, categories, documents, selectedCategory, selectedDoc,
                   analyzing, loading, uploadCategory, srv, jobs, deleted>>

\* onDrop whose catch shows one fixed message.
onDrop_settled_fixed_message(r) ==
    /\ page = "pitch_deck"
    /\ r \in InFlight("upload") /\ r.stage = "done"
    /\ IF r.ok
       THEN /\ toast' = Toast("success", "Pitch deck uploaded successfully!")
            /\ documents' = r.data \o documents
            /\ selectedDoc' = r.data
       ELSE /\ toast' = Toast("error", "Upload failed")
            /\ UNCHANGED <<documents, selectedDoc>>
    /\ uploading' = FALSE
    /\ reqs' = Drop(r)
    /\ UNCHANGED <<page, deckId, categories, selectedCategory, analyzing, loading,
                   uploadCategory, srv, jobs, deleted>>

\* onDrop after the await.
onDrop_settled(r) ==
    /\ page = "pitch_deck"
    /\ r \in InFlight("upload") /\ r.stage = "done"
    /\ IF r.ok
       THEN /\ toast' = Toast("success", "Pitch deck uploaded successfully!")
            /\ documents' = r.data \o documents
            /\ selectedDoc' = r.data
       ELSE /\ toast' = Toast("error", IF r.detail # <<>> THEN r.detail[1] ELSE "Upload failed")
            /\ UNCHANGED <<documents, selectedDoc>>
    /\ uploading' = FALSE
    /\ reqs' = Drop(r)
    /\ UNCHANGED <<page, deckId, categories, selectedCategory, analyzing, loading,
                   uploadCategory, srv, jobs, deleted>>

\* PitchDeckPage.handleAnalyze(deckId) up to the await.
PitchDeck_handleAnalyze(id) ==
    /\ analyzing' = TRUE
    /\ reqs' = Send(pitchDeckAPI_analyze(id))
    /\ toast' = <<>>
    /\ UNCHANGED <<page, deckId, categories, documents, selectedCategory, selectedDoc,
                   uploading, loading, uploadCategory, srv, jobs, deleted>>

\* onClick of analyze-btn and of reanalyze-btn.
analyze_click ==
    /\ page = "pitch_deck"
    /\ analyze_btn_enabled \/ reanalyze_btn_enabled
    /\ BagCardinality(reqs) < MaxInFlight
    /\ PitchDeck_handleAnalyze(selectedDoc[1].id)

\* PitchDeckPage.handleAnalyze after the await.
PitchDeck_handleAnalyze_settled(r) ==
    /\ page = "pitch_deck"
    /\ r \in InFlight("analyze") /\ r.stage = "done"
    /\ IF r.ok
       THEN /\ selectedDoc' = r.data
            /\ documents' = SeqMap(documents, r.doc, r.data[1])
            /\ toast' = Toast("success", "Analysis complete!")
       ELSE /\ toast' = Toast("error", "Analysis failed. Please try again.")
            /\ UNCHANGED <<selectedDoc, documents>>
    /\ analyzing' = FALSE
    /\ reqs' = Drop(r)
    /\ UNCHANGED <<page, deckId, categories, selectedCategory, uploading, loading,
                   uploadCategory, srv, jobs, deleted>>

\* PitchDeckPage.handleDelete(deckId) up to the await, window.confirm
\* answered with OK.  onClick of delete-deck-btn.
PitchDeck_handleDelete(id) ==
    /\ page = "pitch_deck"
    /\ selectedDoc # <<>> /\ selectedDoc[1].id = id
    /\ BagCardinality(reqs) < MaxInFlight
    /\ reqs' = Send([pitchDeckAPI_delete(id) EXCEPT !.closure.selected = selectedDoc,
                                                     !.closure.list = documents])
    /\ toast' = <<>>
    /\ UNCHANGED <<page, deckId, categories, documents, selectedCategory, selectedDoc,
                   uploading, analyzing, loading, uploadCategory, srv, jobs, deleted>>

\* PitchDeckPage.handleDelete after the await; selectedDeck and pitchDecks
\* in the selection update are the ones of the click.
PitchDeck_handleDelete_settled(r) ==
    /\ page = "pitch_deck"
    /\ r \in InFlight("delete") /\ r.stage = "done"
    /\ IF r.ok
       THEN /\ documents' = Without(documents, r.doc)
            /\ IF r.closure.selected # <<>> /\ r.closure.selected[1].id = r.doc
               THEN selectedDoc' = (IF Without(r.closure.list, r.doc) # <<>>
                                    THEN <<Without(r.closure.list, r.doc)[1]>>
                                    ELSE <<>>)
               ELSE UNCHANGED selectedDoc
            /\ toast' = Toast("success", "Pitch deck deleted")
       ELSE /\ toast' = Toast("error", "Failed to delete pitch deck")
            /\ UNCHANGED <<documents, selectedDoc>>
    /\ reqs' = Drop(r)
    /\ UNCHANGED <<page, deckId, categories, selectedCategory, uploading, analyzing,
                   loading, uploadCategory, srv, jobs, deleted>>

\* ======================================= record store and analysis flow
clientVars == <<page, deckId, categories, documents, selectedCategory, selectedDoc,
                uploading, analyzing, loading, uploadCategory>>

\* POST .../upload: create the record with status uploaded, or fail the
\* operation (validation error with a detail, storage error) creating nothing.
SrvUpload(r) ==
    /\ r \in InFlight("upload") /\ r.stage = "sent"
    /\ \/ /\ NextId \in DocIds
          /\ r.file # <<>>
          /\ LET rec == Record(NextId, "uploaded",
                               IF r.cat = <<>> THEN NoCategory ELSE r.cat[1], <<>>)
             IN /\ srv' = [srv EXCEPT ![NextId] = <<rec>>]
                /\ reqs' = Replace(r, Answered(r, TRUE, <<rec>>, <<>>))
       \/ /\ \E detail \in {<<"Unsupported file type">>, <<>>} :
                reqs' = Replace(r, Answered(r, FALSE, <<>>, detail))
          /\ UNCHANGED srv
    /\ toast' = <<>>
    /\ UNCHANGED <<clientVars, jobs, deleted>>

\* An analyze handler that runs the analysis itself and writes its result.
SrvAnalyze_inline(r) ==
    /\ r \in InFlight("analyze") /\ r.stage = "sent"
    /\ Exists(r.doc)
    /\ LET rec == [srv[r.doc][1] EXCEPT !.status = "analyzed",
                       !.analysis = <<[analysis |-> normalize(ValidJson)]>>]
       IN /\ srv' = [srv EXCEPT ![r.doc] = <<rec>>]
          /\ reqs' = Replace(r, Answered(r, TRUE, <<rec>>, <<>>))
    /\ toast' = <<>>
    /\ UNCHANGED <<clientVars, jobs, deleted>>

\* POST .../{id}/analyze: the conditional status update of spec.md section 5.
\* The handler answers at once with the record in status analyzing and the
\* analysis runs as a job; a record already analyzing, or absent, is refused.
\* The payload of an earlier analysis is dropped when the new one starts.
SrvAnalyze(r) ==
    /\ r \in InFlight("analyze") /\ r.stage = "sent"
    /\ IF Exists(r.doc) /\ srv[r.doc][1].status \in {"uploaded", "error", "analyzed"}
       THEN LET rec == [srv[r.doc][1] EXCEPT !.status = "analyzing", !.analysis = <<>>]
            IN /\ srv' = [srv EXCEPT ![r.doc] = <<rec>>]
               /\ jobs' = jobs \cup {r.doc}
               /\ reqs' = Replace(r, Answered(r, TRUE, <<rec>>, <<>>))
       ELSE /\ reqs' = Replace(r, Answered(r, FALSE, <<>>, <<>>))
            /\ UNCHANGED <<srv, jobs>>
    /\ toast' = <<>>
    /\ UNCHANGED <<clientVars, deleted>>

\* Analysis Invoker + Result Normalizer + update_status_and_payload: the job
\* of a record ends with the provider's answer.  No answer in time, or an
\* empty one, is an AnalysisProviderError: status error, no payload.  The
\* update of a record deleted in the meantime finds nothing to update.
JobComplete(id, answer) ==
    /\ id \in jobs
    /\ jobs' = jobs \ {id}
    /\ srv' = [srv EXCEPT ![id] =
                 IF ~Exists(id) THEN <<>>
                 ELSE IF answer \in {ProviderTimeout, EmptyText}
                 THEN <<[srv[id][1] EXCEPT !.status = "error"]>>
                 ELSE <<[srv[id][1] EXCEPT !.status = "analyzed",
                                           !.analysis = <<[analysis |-> normalize(answer)]>>]>>]
    /\ toast' = <<>>
    /\ UNCHANGED <<clientVars, reqs, deleted>>

\* DELETE .../{id}: hard delete of the record (and of its stored file);
\* NotFound when the record is absent.
SrvDelete(r) ==
    /\ r \in InFlight("delete") /\ r.stage = "sent"
    /\ IF Exists(r.doc)
       THEN /\ srv' = [srv EXCEPT ![r.doc] = <<>>]
            /\ deleted' = deleted \cup {r.doc}
            /\ reqs' = Replace(r, Answered(r, TRUE, <<>>, <<>>))
       ELSE /\ reqs' = Replace(r, Answered(r, FALSE, <<>>, <<"Not found">>))
            /\ UNCHANGED <<srv, deleted>>
    /\ toast' = <<>>
    /\ UNCHANGED <<clientVars, jobs>>

\* GET /data-room?category= and GET /pitch-decks
SrvGetAll(r) ==
    /\ r \in BagToSet(reqs)
    /\ r.kind \in {"loadData", "loadDocuments", "loadPitchDecks"}
    /\ r.stage = "sent"
    /\ reqs' = Replace(r, Answered(r, TRUE, SrvList(r.cat), <<>>))
    /\ toast' = <<>>
    /\ UNCHANGED <<clientVars, srv, jobs, deleted>>

\* GET /pitch-deck/{id}: NotFound when the record is absent.
SrvGetOne(r) ==
    /\ r \in InFlight("loadSingleDeck") /\ r.stage = "sent"
    /\ reqs' = Replace(r, IF Exists(r.doc)
                          THEN Answered(r, TRUE, srv[r.doc], <<>>)
                          ELSE Answered(r, FALSE, <<>>, <<"Pitch deck not found">>))
    /\ toast' = <<>>
    /\ UNCHANGED <<clientVars, srv, jobs, deleted>>

\* A request that never gets an answer from the service (network error).
NetworkError(r) ==
    /\ r \in BagToSet(reqs) /\ r.stage = "sent"
    /\ reqs' = Replace(r, Answered(r, FALSE, <<>>, <<>>))
    /\ toast' = <<>>
    /\ UNCHANGED <<clientVars, srv, jobs, deleted>>

\* ================================================================ Spec
InitApiIdle ==
    /\ token = <<>>
    /\ wire = {}
    /\ db = <<>>
    /\ seen = {}

\* The router and the auth context are left aside.
InitRoutesIdle ==
    /\ location = ""
    /\ user = <<>>
    /\ authLoading = FALSE
    /\ redirects = 0
    /\ visited = {}
    /\ historyStack = <<>>

\* The history page and the dashboard are not mounted.
InitViewsIdle ==
    /\ history = <<>>
    /\ clearing = FALSE
    /\ deleting = <<>>
    /\ stats = <<>>
    /\ recentPitchDecks = <<>>
    /\ records = {}

Init == InitPage /\ InitApiIdle /\ InitViewsIdle /\ InitRoutesIdle

Next ==
    \/ \E r \in BagToSet(reqs) : loadData(r)
    \/ \E r \in BagToSet(reqs) : loadDocuments(r)
    \/ \E c \in Categories : category_click(c)
    \/ \E d \in Range(documents) : doc_item_click(d)
    \/ \E c \in Categories : setUploadCategory(c)
    \/ \E f \in Files : handleFileUpload(f)
    \/ \E r \in BagToSet(reqs) : handleFileUpload_settled(r)
    \/ analyze_doc_click
    \/ \E r \in BagToSet(reqs) : handleAnalyze_settled(r)
    \/ \E r \in BagToSet(reqs) : loadPitchDecks(r)
    \/ \E r \in BagToSet(reqs) : loadSingleDeck(r)
    \/ \E d \in Range(documents) : deck_item_click(d)
    \/ \E f \in Files : onDrop(f)
    \/ \E r \in BagToSet(reqs) : onDrop_settled(r)
    \/ analyze_click
    \/ \E r \in BagToSet(reqs) : PitchDeck_handleAnalyze_settled(r)
    \/ \E r \in BagToSet(reqs) : SrvUpload(r)
    \/ \E r \in BagToSet(reqs) : SrvAnalyze(r)
    \/ \E id \in DocIds, a \in ProviderAnswers : JobComplete(id, a)
    \/ \E r \in BagToSet(reqs) : SrvGetAll(r)
    \/ \E r \in BagToSet(reqs) : SrvGetOne(r)
    \/ \E r \in BagToSet(reqs) : NetworkError(r)
    \/ \E id \in DocIds : handleDelete(id)
    \/ \E r \in BagToSet(reqs) : handleDelete_settled(r)
    \/ \E id \in DocIds : PitchDeck_handleDelete(id)
    \/ \E r \in BagToSet(reqs) : PitchDeck_handleDelete_settled(r)
    \/ \E r \in BagToSet(reqs) : SrvDelete(r)

Spec == Init /\ [][Next /\ UNCHANGED <<apiVars, viewVars, routeVars>>]_vars

\* Requests and answers get through: the service answers what it receives,
\* a job ends, and the page runs the continuation of an answered await.
\* Nothing obliges the user to click.
SystemStep ==
    \/ \E r \in BagToSet(reqs) : loadData(r)
    \/ \E r \in BagToSet(reqs) : loadDocuments(r)
    \/ \E r \in BagToSet(reqs) : handleFileUpload_settled(r)
    \/ \E r \in BagToSet(reqs) : handleAnalyze_settled(r)
    \/ \E r \in BagToSet(reqs) : loadPitchDecks(r)
    \/ \E r \in BagToSet(reqs) : loadSingleDeck(r)
    \/ \E r \in BagToSet(reqs) : onDrop_settled(r)
    \/ \E r \in BagToSet(reqs) : PitchDeck_handleAnalyze_settled(r)
    \/ \E r \in BagToSet(reqs) : SrvUpload(r)
    \/ \E r \in BagToSet(reqs) : SrvAnalyze(r)
    \/ \E id \in DocIds, a \in ProviderAnswers : JobComplete(id, a)
    \/ \E r \in BagToSet(reqs) : SrvGetAll(r)
    \/ \E r \in BagToSet(reqs) : SrvGetOne(r)
    \/ \E r \in BagToSet(reqs) : handleDelete_settled(r)
    \/ \E r \in BagToSet(reqs) : PitchDeck_handleDelete_settled(r)
    \/ \E r \in BagToSet(reqs) : SrvDelete(r)

FairSpec ==
    /\ Init
    /\ [][Next /\ UNCHANGED <<apiVars, viewVars, routeVars>>]_vars
    /\ WF_vars(SystemStep /\ UNCHANGED <<apiVars, viewVars, routeVars>>)

\* ------------------------------------------------- uploads and deletes
\* The same pages over a store with room for a second record, followed
\* through loading, selecting, uploading and deleting only.
InitUploads == Mounted(MaxUploads) /\ InitApiIdle /\ InitViewsIdle /\ InitRoutesIdle

NextUploads ==
    \/ \E r \in BagToSet(reqs) : loadData(r)
    \/ \E r \in BagToSet(reqs) : loadDocuments(r)
    \/ \E d \in Range(documents) : doc_item_click(d)
    \/ \E c \in Categories : setUploadCategory(c)
    \/ \E f \in Files : handleFileUpload(f)
    \/ \E r \in BagToSet(reqs) : handleFileUpload_settled(r)
    \/ \E id \in DocIds : handleDelete(id)
    \/ \E r \in BagToSet(reqs) : handleDelete_settled(r)
    \/ \E r \in BagToSet(reqs) : loadPitchDecks(r)
    \/ \E r \in BagToSet(reqs) : loadSingleDeck(r)
    \/ \E d \in Range(documents) : deck_item_click(d)
    \/ \E f \in Files : onDrop(f)
    \/ \E r \in BagToSet(reqs) : onDrop_settled(r)
    \/ \E id \in DocIds : PitchDeck_handleDelete(id)
    \/ \E r \in BagToSet(reqs) : PitchDeck_handleDelete_settled(r)
    \/ \E r \in BagToSet(reqs) : SrvUpload(r)
    \/ \E r \in BagToSet(reqs) : SrvDelete(r)
    \/ \E r \in BagToSet(reqs) : SrvGetAll(r)
    \/ \E r \in BagToSet(reqs) : SrvGetOne(r)
    \/ \E r \in BagToSet(reqs) : NetworkError(r)

SpecUploads == InitUploads /\ [][NextUploads /\ UNCHANGED <<apiVars, viewVars, routeVars>>]_vars

\* ------------------------------------------------ analyses of two records
\* The same pages over a store that holds MaxListed records of earlier
\* visits (on the data-room page one of each category), followed through
\* loading, selecting and analysing only.
AnalyzeStores(p) ==
    {[i \in 1..MaxListed |->
         <<Record(i, st[i],
                  IF p = "pitch_deck" THEN NoCategory
                  ELSE IF i = 1 THEN "financials" ELSE "legal",
                  IF st[i] = "analyzed" THEN <<[analysis |-> normalize(ValidJson)]>>
                  ELSE <<>>)>>] :
        st \in [1..MaxListed -> {"uploaded", "analyzed"}]}

InitAnalyze ==
    /\ page \in {"data_room", "pitch_deck"}
    /\ deckId \in (IF page = "pitch_deck" THEN {<<>>, <<1>>} ELSE {<<>>})
    /\ categories = {}
    /\ documents = <<>>
    /\ selectedCategory = <<>>
    /\ selectedDoc = <<>>
    /\ uploading = FALSE
    /\ analyzing = FALSE
    /\ loading = TRUE
    /\ uploadCategory = ""
    /\ toast = <<>>
    /\ reqs = MountRequests(page, deckId)
    /\ srv \in AnalyzeStores(page)
    /\ jobs = {}
    /\ deleted = {}
    /\ InitApiIdle
    /\ InitViewsIdle
    /\ InitRoutesIdle

NextAnalyze ==
    \/ \E r \in BagToSet(reqs) : loadData(r)
    \/ \E r \in BagToSet(reqs) : loadDocuments(r)
    \/ \E d \in Range(documents) : doc_item_click(d)
    \/ analyze_doc_click
    \/ \E r \in BagToSet(reqs) : handleAnalyze_settled(r)
    \/ \E r \in BagToSet(reqs) : loadPitchDecks(r)
    \/ \E r \in BagToSet(reqs) : loadSingleDeck(r)
    \/ \E d \in Range(documents) : deck_item_click(d)
    \/ analyze_click
    \/ \E r \in BagToSet(reqs) : PitchDeck_handleAnalyze_settled(r)
    \/ \E r \in BagToSet(reqs) : SrvAnalyze(r)
    \/ \E id \in DocIds, a \in ProviderAnswers : JobComplete(id, a)
    \/ \E r \in BagToSet(reqs) : SrvGetAll(r)
    \/ \E r \in BagToSet(reqs) : SrvGetOne(r)
    \/ \E r \in BagToSet(reqs) : NetworkError(r)

SpecAnalyze == InitAnalyze /\ [][NextAnalyze /\ UNCHANGED <<apiVars, viewVars, routeVars>>]_vars

\* --------------------------------------------------- category filter
\* The data-room page over the same store of MaxListed records, followed
\* through loading and category switches only; the service answers every
\* list request and the store does not change.
InitFilter ==
    /\ page = "data_room"
    /\ deckId = <<>>
    /\ categories = {}
    /\ documents = <<>>
    /\ selectedCategory = <<>>
    /\ selectedDoc = <<>>
    /\ uploading = FALSE
    /\ analyzing = FALSE
    /\ loading = TRUE
    /\ uploadCategory = ""
    /\ toast = <<>>
    /\ reqs = MountRequests(page, deckId)
    /\ srv \in AnalyzeStores(page)
    /\ jobs = {}
    /\ deleted = {}
    /\ InitApiIdle
    /\ InitViewsIdle
    /\ InitRoutesIdle

NextFilter ==
    \/ \E r \in BagToSet(reqs) : loadData(r)
    \/ \E r \in BagToSet(reqs) : loadDocuments(r)
    \/ \E c \in Categories : category_click(c)
    \/ \E d \in Range(documents) : doc_item_click(d)
    \/ \E r \in BagToSet(reqs) : SrvGetAll(r)

SpecFilter == InitFilter /\ [][NextFilter /\ UNCHANGED <<apiVars, viewVars, routeVars>>]_vars

\* ======================================================= services/api.js
\* The shared axios client: every call builds a config, the request
\* interceptor completes it, and the request goes on the wire.  The service
\* side below keeps, of each record, only who owns it.
Users == {"u1", "u2"}
TokenOf(u) == IF u = "u1" THEN "t1" ELSE "t2"
RecIds == 1..MaxRecords

\* The calls of pitchDeckAPI / dataRoomAPI / dashboardAPI / historyAPI that
\* name a record, and those that do not.
RecordCalls == {"analyze", "getOne", "delete"}
PlainCalls == {"upload", "getAll", "getStats", "history", "clear"}

\* The config of a call before the interceptor: path id (0 = none), body
\* (only authAPI.login has one here: the credentials) and no Authorization.
Config(call, id, body) ==
    [call |-> call, id |-> id, body |-> body,
     headers |-> [Authorization |-> <<>>]]

\* An interceptor that sets the header whatever localStorage answers.
interceptor_unconditional(config) ==
    LET t == token
    IN [config EXCEPT !.headers.Authorization =
            <<"Bearer " \o (IF t = <<>> THEN "null" ELSE t[1])>>]

\* An interceptor holding the token of the first account in a module
\* variable instead of reading localStorage on every request.
interceptor_first_account(config) ==
    [config EXCEPT !.headers.Authorization = <<"Bearer t1">>]

\* api.interceptors.request.use((config) => { ... })
interceptor(config) ==
    LET t == token       \* localStorage.getItem('ventur_token')
    IN IF TruthyString(t)
       THEN [config EXCEPT !.headers.Authorization = <<"Bearer " \o t[1]>>]
       ELSE config

\* What goes on the wire, with the token that was stored at that moment.
Sent(config) ==
    [call |-> config.call, id |-> config.id, body |-> config.body,
     headers |-> interceptor(config).headers, stored |-> token]

InitPageIdle ==
    /\ page = "none"
    /\ deckId = <<>>
    /\ categories = {}
    /\ documents = <<>>
    /\ selectedCategory = <<>>
    /\ selectedDoc = <<>>
    /\ uploading = FALSE
    /\ analyzing = FALSE
    /\ loading = FALSE
    /\ uploadCategory = ""
    /\ toast = <<>>
    /\ reqs = EmptyBag
    /\ srv = [i \in 1..MaxDocs |-> <<>>]
    /\ jobs = {}
    /\ deleted = {}

InitApi ==
    /\ InitPageIdle
    /\ InitViewsIdle
    /\ InitRoutesIdle
    /\ token = <<>>
    /\ wire = {}
    /\ db = [i \in RecIds |-> <<>>]
    /\ seen = {}

\* authAPI.login(email, password)
api_login(u) ==
    /\ Cardinality(wire) < MaxWire
    /\ wire' = wire \cup {Sent(Config("login", 0, <<u>>))}
    /\ UNCHANGED <<token, db, seen>>

\* A call that names a record: analyze(id), getOne(id), delete(id).
api_record_call(call, id) ==
    /\ Cardinality(wire) < MaxWire
    /\ wire' = wire \cup {Sent(Config(call, id, <<>>))}
    /\ UNCHANGED <<token, db, seen>>

\* A call that names none: upload(file), getAll(), getStats(), history
\* getAll(), clear().
api_plain_call(call) ==
    /\ Cardinality(wire) < MaxWire
    /\ wire' = wire \cup {Sent(Config(call, 0, <<>>))}
    /\ UNCHANGED <<token, db, seen>>

\* AuthContext.logout: the stored token is removed.
logout ==
    /\ token # <<>>
    /\ token' = <<>>
    /\ UNCHANGED <<wire, db, seen>>

\* The user a bearer header stands for; <<>> when absent or unknown.
UserOfHeader(h) ==
    IF h = <<"Bearer t1">> THEN <<"u1">>
    ELSE IF h = <<"Bearer t2">> THEN <<"u2">>
    ELSE <<>>

\* The user who was logged in on the client when m was sent.
CallerOf(m) ==
    IF m.stored = <<"t1">> THEN <<"u1">>
    ELSE IF m.stored = <<"t2">> THEN <<"u2">>
    ELSE <<>>

Owned(u) == {i \in RecIds : db[i] # <<>> /\ db[i][1].owner = u}
FreeIds == {i \in RecIds : db[i] = <<>>}

\* One line of the log: caller read or changed a record of owner.
Access(call) == IF call \in {"getOne", "getAll", "getStats", "history"} THEN "read" ELSE "write"
Touch(m, i) == [caller |-> CallerOf(m), owner |-> db[i][1].owner, access |-> Access(m.call)]

\* POST /auth/login: public; the answer's token is stored by AuthContext.
SrvLogin(m) ==
    /\ m \in wire /\ m.call = "login"
    /\ token' = <<TokenOf(m.body[1])>>
    /\ wire' = wire \ {m}
    /\ UNCHANGED <<db, seen>>

\* A protected endpoint with a missing or invalid token: unauthorized.
SrvUnauthorized(m) ==
    /\ m \in wire /\ m.call # "login"
    /\ UserOfHeader(m.headers.Authorization) = <<>>
    /\ wire' = wire \ {m}
    /\ UNCHANGED <<token, db, seen>>

\* A protected endpoint, authenticated as u: every operation is scoped to
\* the records u owns; a record of another user is NotFound.
SrvProtected(m) ==
    /\ m \in wire /\ m.call # "login"
    /\ UserOfHeader(m.headers.Authorization) # <<>>
    /\ LET u == UserOfHeader(m.headers.Authorization)[1]
       IN CASE m.call = "upload" ->
                 IF FreeIds = {} THEN UNCHANGED <<db, seen>>
                 ELSE LET i == CHOOSE j \in FreeIds : \A k \in FreeIds : j <= k
                      IN /\ db' = [db EXCEPT ![i] = <<[owner |-> u]>>]
                         /\ seen' = seen \cup {[caller |-> CallerOf(m), owner |-> u,
                                                access |-> Access(m.call)]}
            [] m.call \in {"analyze", "getOne"} ->
                 /\ seen' = seen \cup {Touch(m, i) : i \in Owned(u) \cap {m.id}}
                 /\ UNCHANGED db
            [] m.call = "delete" ->
                 /\ seen' = seen \cup {Touch(m, i) : i \in Owned(u) \cap {m.id}}
                 /\ db' = [i \in RecIds |-> IF i \in Owned(u) \cap {m.id} THEN <<>> ELSE db[i]]
            [] m.call \in {"getAll", "getStats", "history"} ->
                 /\ seen' = seen \cup {Touch(m, i) : i \in Owned(u)}
                 /\ UNCHANGED db
            [] m.call = "clear" ->
                 /\ seen' = seen \cup {Touch(m, i) : i \in Owned(u)}
                 /\ db' = [i \in RecIds |-> IF i \in Owned(u) THEN <<>> ELSE db[i]]
    /\ wire' = wire \ {m}
    /\ UNCHANGED token

NextApi ==
    \/ \E u \in Users : api_login(u)
    \/ \E c \in RecordCalls, i \in RecIds : api_record_call(c, i)
    \/ \E c \in PlainCalls : api_plain_call(c)
    \/ logout
    \/ \E m \in wire : SrvLogin(m)
    \/ \E m \in wire : SrvUnauthorized(m)
    \/ \E m \in wire : SrvProtected(m)

SpecApi == InitApi /\ [][NextApi /\ UNCHANGED <<pageVars, viewVars, routeVars>>]_vars

\* C8: a request of the shared client carries 'Authorization: Bearer <token>'
\* exactly when a token was stored when it was sent, with the value stored
\* then; without a stored token it carries no Authorization header.
C8_BearerIffStored ==
    \A m \in wire :
        IF m.stored # <<>>
        THEN m.headers.Authorization = <<"Bearer " \o m.stored[1]>>
        ELSE m.headers.Authorization = <<>>

\* C8 witness: a request sent with t2 is still on the wire after the user
\* logged out.
C8_Witness ==
    /\ token = <<>>
    /\ \E m \in wire : m.stored = <<"t2">> /\ m.headers.Authorization = <<"Bearer t2">>

\* C9: every record an operation reads or changes is owned by the user who
\* was logged in when the call was made, and no record call carries a user
\* identifier of its own.
C9_TenantIsolation ==
    /\ \A e \in seen : e.caller = <<e.owner>>
    /\ \A m \in wire : m.call # "login" => m.body = <<>>

\* C9 witness: each user has read and changed records while the store
\* holds a record of each of them.
C9_Witness ==
    /\ \A u \in Users, a \in {"read", "write"} :
           \E e \in seen : e.caller = <<u>> /\ e.access = a
    /\ \A u \in Users : Owned(u) # {}

\* ========================================================= HistoryPage
\* HistoryPage of src/unnamed/part_003 over the service's records of both
\* types.  The page's requests carry the token of Caller; the service also
\* holds records of another user.
Types == {"pitch_deck", "data_room"}
Caller == "u1"
Times == 0..MaxTime

\* A record of the service as the history and the statistics look at it.
StoredRecord(id, type, owner, category, created_at) ==
    [id |-> id, type |-> type, owner |-> owner, category |-> category,
     created_at |-> created_at]

\* n records of the caller, of any types and creation times.
CallerRecords(n) ==
    {{StoredRecord(i, ty[i], Caller, NoCategory, tm[i]) : i \in 1..n} :
        ty \in [1..n -> Types], tm \in [1..n -> Times]}

\* The records of the other user: one of each type.
OthersRecords ==
    {StoredRecord(101, "pitch_deck", "u2", NoCategory, 0),
     StoredRecord(102, "data_room", "u2", "legal", MaxTime)}

Owns(u) == {e \in records : e.owner = u}

\* HistoryEntry: the projection of a record, with its type discriminant.
HistoryEntry(e) == [id |-> e.id, type |-> e.type, created_at |-> e.created_at]

RECURSIVE SortedHistory(_)
\* history(owner): both types merged, created_at descending.
SortedHistory(S) ==
    IF S = {} THEN <<>>
    ELSE LET m == CHOOSE e \in S : \A f \in S :
                      \/ f.created_at < e.created_at
                      \/ f.created_at = e.created_at /\ f.id <= e.id
         IN <<HistoryEntry(m)>> \o SortedHistory(S \ {m})

\* services/api.js: historyAPI
historyAPI_getAll == Req("loadHistory", 0, <<>>, <<>>)
historyAPI_clear == Req("clear", 0, <<>>, <<>>)

\* new Date(item.created_at).toDateString(): the calendar day of a time.
toDateString(created_at) == created_at \div DayLength

\* The reducer of groupedHistory with groups[date].unshift(item).
group_item_unshift(groups, item) ==
    LET date == toDateString(item.created_at)
        at == {k \in 1..Len(groups) : groups[k].date = date}
    IN IF at = {}
       THEN Append(groups, [date |-> date, items |-> <<item>>])
       ELSE LET k == CHOOSE j \in at : TRUE
            IN [groups EXCEPT ![k].items = <<item>> \o @]

\* The reducer of groupedHistory: (groups, item) => { ...; groups[date].push(item) }.
\* The object is the sequence of its entries in insertion order, the order
\* Object.entries gives for keys that are date strings.
group_item(groups, item) ==
    LET date == toDateString(item.created_at)
        at == {k \in 1..Len(groups) : groups[k].date = date}
    IN IF at = {}
       THEN Append(groups, [date |-> date, items |-> <<item>>])
       ELSE LET k == CHOOSE j \in at : TRUE
            IN [groups EXCEPT ![k].items = Append(@, item)]

RECURSIVE reduce(_, _)
\* list.reduce(group_item, groups)
reduce(list, groups) ==
    IF list = <<>> THEN groups
    ELSE reduce(Tail(list), group_item(groups, Head(list)))

\* const groupedHistory = history.reduce(..., {})
groupedHistory == reduce(history, <<>>)

\* The stats cards: Total Items, Pitch Decks, Data Room Docs.
TotalItems == Len(history)
PitchDecksCard == Len(SelectSeq(history, LAMBDA h : h.type = "pitch_deck"))
\* The Data Room Docs card comparing with the name of the endpoint family.
DataRoomDocsCard_endpoint_name == Len(SelectSeq(history, LAMBDA h : h.type = "data-room"))
DataRoomDocsCard == Len(SelectSeq(history, LAMBDA h : h.type = "data_room"))

\* clear-all-btn is rendered when history.length > 0; its confirm button
\* is disabled={clearing}.
clear_all_enabled == Len(history) > 0 /\ ~clearing

\* What the history page does not use stays as it is.
historyIdleVars == <<deckId, categories, documents, selectedCategory, selectedDoc,
                     uploading, analyzing, uploadCategory, srv, jobs, deleted,
                     stats, recentPitchDecks, token, wire, db, seen,
                     location, user, authLoading, redirects, visited, historyStack>>

InitHistory ==
    /\ page = "history"
    /\ history = <<>>
    /\ loading = TRUE
    /\ clearing = FALSE
    /\ deleting = <<>>
    /\ toast = <<>>
    /\ reqs = SetToBag({historyAPI_getAll})
    /\ \E n \in 0..MaxHistory : \E mine \in CallerRecords(n) :
           records = mine \cup OthersRecords
    /\ stats = <<>>
    /\ recentPitchDecks = <<>>
    /\ deckId = <<>>
    /\ categories = {}
    /\ documents = <<>>
    /\ selectedCategory = <<>>
    /\ selectedDoc = <<>>
    /\ uploading = FALSE
    /\ analyzing = FALSE
    /\ uploadCategory = ""
    /\ srv = [i \in 1..MaxDocs |-> <<>>]
    /\ jobs = {}
    /\ deleted = {}
    /\ InitApiIdle
    /\ InitRoutesIdle

\* loadHistory: the response has arrived.
loadHistory(r) ==
    /\ r \in InFlight("loadHistory") /\ r.stage = "done"
    /\ IF r.ok
       THEN /\ history' = r.data
            /\ toast' = <<>>
       ELSE /\ toast' = Toast("error", "Failed to load history")
            /\ UNCHANGED history
    /\ loading' = FALSE
    /\ reqs' = Drop(r)
    /\ UNCHANGED <<page, clearing, deleting, records>>

\* handleDelete sending every delete to the data-room endpoint.
History_handleDelete_data_room_only(item) ==
    /\ page = "history"
    /\ ~loading
    /\ item \in Range(history)
    /\ deleting # <<item.id>>
    /\ BagCardinality(reqs) < MaxInFlight
    /\ deleting' = <<item.id>>
    /\ reqs' = Send(dataRoomAPI_delete(item.id))
    /\ toast' = <<>>
    /\ UNCHANGED <<page, loading, history, clearing, records>>

\* HistoryPage.handleDelete(item) up to the await: onClick of the item's
\* delete button, disabled={deleting === item.id}.
History_handleDelete(item) ==
    /\ page = "history"
    /\ ~loading
    /\ item \in Range(history)
    /\ deleting # <<item.id>>
    /\ BagCardinality(reqs) < MaxInFlight
    /\ deleting' = <<item.id>>
    /\ reqs' = Send(IF item.type = "pitch_deck"
                    THEN pitchDeckAPI_delete(item.id)
                    ELSE dataRoomAPI_delete(item.id))
    /\ toast' = <<>>
    /\ UNCHANGED <<page, loading, history, clearing, records>>

\* HistoryPage.handleDelete after the await.
History_handleDelete_settled(r) ==
    /\ page = "history"
    /\ r \in InFlight("delete") /\ r.stage = "done"
    /\ IF r.ok
       THEN /\ history' = Without(history, r.doc)
            /\ toast' = Toast("success", "Item deleted successfully")
       ELSE /\ toast' = Toast("error", "Failed to delete item")
            /\ UNCHANGED history
    /\ deleting' = <<>>
    /\ reqs' = Drop(r)
    /\ UNCHANGED <<page, loading, clearing, records>>

\* handleClearAll up to the await: 'Delete All' of the confirm dialog.
handleClearAll ==
    /\ page = "history"
    /\ clear_all_enabled
    /\ BagCardinality(reqs) < MaxInFlight
    /\ clearing' = TRUE
    /\ reqs' = Send(historyAPI_clear)
    /\ toast' = <<>>
    /\ UNCHANGED <<page, loading, history, deleting, records>>

\* handleClearAll that empties the list before the service has answered.
handleClearAll_settled_optimistic(r) ==
    /\ r \in InFlight("clear") /\ r.stage = "done"
    /\ history' = <<>>
    /\ toast' = IF r.ok THEN Toast("success", "History cleared successfully")
                ELSE Toast("error", "Failed to clear history")
    /\ clearing' = FALSE
    /\ reqs' = Drop(r)
    /\ UNCHANGED <<page, loading, deleting, records>>

\* handleClearAll after the await.
handleClearAll_settled(r) ==
    /\ r \in InFlight("clear") /\ r.stage = "done"
    /\ IF r.ok
       THEN /\ history' = <<>>
            /\ toast' = Toast("success", "History cleared successfully")
       ELSE /\ toast' = Toast("error", "Failed to clear history")
            /\ UNCHANGED history
    /\ clearing' = FALSE
    /\ reqs' = Drop(r)
    /\ UNCHANGED <<page, loading, deleting, records>>

\* GET /history
SrvHistory(r) ==
    /\ r \in InFlight("loadHistory") /\ r.stage = "sent"
    /\ reqs' = Replace(r, Answered(r, TRUE, SortedHistory(Owns(Caller)), <<>>))
    /\ toast' = <<>>
    /\ UNCHANGED <<page, loading, history, clearing, deleting, records>>

\* The type of the records an endpoint family works on.
TypeOfApi(api) == IF api = "pitch-deck" THEN "pitch_deck" ELSE "data_room"

\* DELETE /pitch-deck/{id} and DELETE /data-room/{id} as the history page
\* uses them: NotFound unless the caller owns a record of that type and id.
SrvDeleteRecord(r) ==
    /\ page = "history"
    /\ r \in InFlight("delete") /\ r.stage = "sent"
    /\ LET hit == {e \in Owns(Caller) : e.id = r.doc /\ e.type = TypeOfApi(r.api)}
       IN IF hit # {}
          THEN /\ records' = records \ hit
               /\ reqs' = Replace(r, Answered(r, TRUE, <<>>, <<>>))
          ELSE /\ reqs' = Replace(r, Answered(r, FALSE, <<>>, <<"Not found">>))
               /\ UNCHANGED records
    /\ toast' = <<>>
    /\ UNCHANGED <<page, loading, history, clearing, deleting>>

\* DELETE /history/clear: clear_history(owner).
SrvClear(r) ==
    /\ r \in InFlight("clear") /\ r.stage = "sent"
    /\ records' = records \ Owns(Caller)
    /\ reqs' = Replace(r, Answered(r, TRUE, <<>>, <<>>))
    /\ toast' = <<>>
    /\ UNCHANGED <<page, loading, history, clearing, deleting>>

NextHistory ==
    \/ \E r \in BagToSet(reqs) : loadHistory(r)
    \/ \E item \in Range(history) : History_handleDelete(item)
    \/ \E r \in BagToSet(reqs) : History_handleDelete_settled(r)
    \/ handleClearAll
    \/ \E r \in BagToSet(reqs) : handleClearAll_settled(r)
    \/ \E r \in BagToSet(reqs) : SrvHistory(r)
    \/ \E r \in BagToSet(reqs) : SrvDeleteRecord(r)
    \/ \E r \in BagToSet(reqs) : SrvClear(r)
    \/ \E r \in BagToSet(reqs) :
          NetworkError(r) /\ UNCHANGED <<history, clearing, deleting, records>>

SpecHistory == InitHistory /\ [][NextHistory /\ UNCHANGED historyIdleVars]_vars

\* =========================================================== Dashboard
\* Dashboard of src/unnamed/part_002 and the statistics of the service.
\* The eight category keys, in the order the service lists them.
CategoryKeys == <<"summary", "financials", "legal", "previous_funding",
                  "intellectual_property", "staff", "metrics", "other">>
AllCategories == Range(CategoryKeys)

\* name.replace('_', ' ').toUpperCase()
ChartName(name) ==
    CASE name = "summary" -> "SUMMARY"
      [] name = "financials" -> "FINANCIALS"
      [] name = "legal" -> "LEGAL"
      [] name = "previous_funding" -> "PREVIOUS FUNDING"
      [] name = "intellectual_property" -> "INTELLECTUAL PROPERTY"
      [] name = "staff" -> "STAFF"
      [] name = "metrics" -> "METRICS"
      [] name = "other" -> "OTHER"

colors == <<"#FF4F00", "#FF6B35", "#FF8A5B", "#FFA07A",
            "#FFB694", "#FFC9AD", "#FFDCC6", "#FFEFE0">>

\* The data-room documents of the dashboard's user: count[c] per category c.
DashboardDocuments(count) ==
    {StoredRecord(10 * ij[1] + ij[2], "data_room", Caller, CategoryKeys[ij[1]], 0) :
        ij \in {p \in (1..Len(CategoryKeys)) \X (1..MaxPerCategory) :
                    p[2] <= count[CategoryKeys[p[1]]]}}

\* How many pitch decks the user may have: none, one, more than the five
\* the dashboard shows.
DeckCounts == {0, 1, 6}

DashboardDecks(n) == {StoredRecord(i, "pitch_deck", Caller, NoCategory, i) : i \in 1..n}

\* stats(owner): documents_by_category is the object's entries, one
\* [key, count] per category key, zero counts included.
Stats(owner) ==
    LET docs == {e \in Owns(owner) : e.type = "data_room"}
    IN [total_pitch_decks |-> Cardinality({e \in Owns(owner) : e.type = "pitch_deck"}),
        total_documents |-> Cardinality(docs),
        documents_by_category |->
            [i \in 1..Len(CategoryKeys) |->
                <<CategoryKeys[i],
                  Cardinality({e \in docs : e.category = CategoryKeys[i]})>>]]

\* Promise.all([dashboardAPI.getStats(), pitchDeckAPI.getAll()])
dashboardAPI_getStats_getAll == Req("loadDashboardData", 0, <<>>, <<>>)

\* pitchDecksRes.data.slice(0, 5)
slice5(list) == SubSeq(list, 1, IF Len(list) < 5 THEN Len(list) ELSE 5)

\* getCategoryChartData leaving out the categories without documents.
getCategoryChartData_nonzero ==
    IF stats = <<>> THEN <<>>
    ELSE LET entries == SelectSeq(stats[1].documents_by_category, LAMBDA e : e[2] > 0)
         IN [i \in 1..Len(entries) |->
                [name |-> ChartName(entries[i][1]),
                 value |-> entries[i][2],
                 color |-> colors[((i - 1) % Len(colors)) + 1]]]

\* getCategoryChartData()
getCategoryChartData ==
    IF stats = <<>> THEN <<>>
    ELSE LET entries == stats[1].documents_by_category
         IN [i \in 1..Len(entries) |->
                [name |-> ChartName(entries[i][1]),
                 value |-> entries[i][2],
                 color |-> colors[((i - 1) % Len(colors)) + 1]]]

\* category-distribution: getCategoryChartData().length === 0 shows
\* 'No documents yet', otherwise the pie chart.
no_documents_yet_shown == Len(getCategoryChartData) = 0

dashboardIdleVars == <<deckId, categories, documents, selectedCategory, selectedDoc,
                       uploading, analyzing, uploadCategory, srv, jobs, deleted,
                       history, clearing, deleting, token, wire, db, seen,
                       location, user, authLoading, redirects, visited, historyStack>>

InitDashboard ==
    /\ page = "dashboard"
    /\ stats = <<>>
    /\ recentPitchDecks = <<>>
    /\ loading = TRUE
    /\ toast = <<>>
    /\ reqs = SetToBag({dashboardAPI_getStats_getAll})
    /\ \E count \in [AllCategories -> 0..MaxPerCategory], n \in DeckCounts :
           records = DashboardDocuments(count) \cup DashboardDecks(n) \cup OthersRecords
    /\ history = <<>>
    /\ clearing = FALSE
    /\ deleting = <<>>
    /\ deckId = <<>>
    /\ categories = {}
    /\ documents = <<>>
    /\ selectedCategory = <<>>
    /\ selectedDoc = <<>>
    /\ uploading = FALSE
    /\ analyzing = FALSE
    /\ uploadCategory = ""
    /\ srv = [i \in 1..MaxDocs |-> <<>>]
    /\ jobs = {}
    /\ deleted = {}
    /\ InitApiIdle
    /\ InitRoutesIdle

\* loadDashboardData: both responses of Promise.all have arrived.
loadDashboardData(r) ==
    /\ r \in InFlight("loadDashboardData") /\ r.stage = "done"
    /\ IF r.ok
       THEN /\ stats' = <<r.data[1].stats>>
            /\ recentPitchDecks' = slice5(r.data[1].decks)
            /\ toast' = <<>>
       ELSE /\ toast' = Toast("error", "Failed to load dashboard data")
            /\ UNCHANGED <<stats, recentPitchDecks>>
    /\ loading' = FALSE
    /\ reqs' = Drop(r)
    /\ UNCHANGED <<page, records>>

\* GET /dashboard/stats and GET /pitch-decks
SrvDashboard(r) ==
    /\ r \in InFlight("loadDashboardData") /\ r.stage = "sent"
    /\ reqs' = Replace(r, Answered(r, TRUE,
                   <<[stats |-> Stats(Caller),
                      decks |-> SortedHistory({e \in Owns(Caller) : e.type = "pitch_deck"})]>>,
                   <<>>))
    /\ toast' = <<>>
    /\ UNCHANGED <<page, loading, stats, recentPitchDecks, records>>

NextDashboard ==
    \/ \E r \in BagToSet(reqs) : loadDashboardData(r)
    \/ \E r \in BagToSet(reqs) : SrvDashboard(r)
    \/ \E r \in BagToSet(reqs) :
          NetworkError(r) /\ UNCHANGED <<stats, recentPitchDecks, records>>

SpecDashboard == InitDashboard /\ [][NextDashboard /\ UNCHANGED dashboardIdleVars]_vars

\* ============================================================== App.js
\* The routes of AppRoutes and their wrappers.  What a route renders is a
\* record: a page component, the loading spinner, or <Navigate to replace />.
\* user and loading come from useAuth(); the AuthContext behind it is not
\* part of the sources, so every combination of the two is looked at.
Page(name) == [kind |-> "page", name |-> name]
Spinner == [kind |-> "spinner", name |-> ""]
Navigate(to) == [kind |-> "Navigate", name |-> to]

ProtectedPaths == {"/dashboard", "/pitch-deck", "/pitch-deck/1", "/data-room", "/history"}
PublicPaths == {"/login", "/register"}
\* The paths a location can have: the routes and one no route is written for.
Paths == {"/", "/unknown"} \cup PublicPaths \cup ProtectedPaths

\* ProtectedRoute without its loading branch.
ProtectedRoute_no_spinner(children) ==
    IF user = <<>> THEN Navigate("/login")
    ELSE Page(children)

\* ProtectedRoute({ children })
ProtectedRoute(children) ==
    IF authLoading THEN Spinner
    ELSE IF user = <<>> THEN Navigate("/login")
    ELSE Page(children)

\* PublicRoute sending a signed-in user to /login.
PublicRoute_to_login(children) ==
    IF authLoading THEN Spinner
    ELSE IF user # <<>> THEN Navigate("/login")
    ELSE Page(children)

\* PublicRoute({ children })
PublicRoute(children) ==
    IF authLoading THEN Spinner
    ELSE IF user # <<>> THEN Navigate("/dashboard")
    ELSE Page(children)

\* AppRoutes: the element of the route that matches the path.
AppRoutes(path) ==
    CASE path = "/" -> Page("LandingPage")
      [] path = "/login" -> PublicRoute("LoginPage")
      [] path = "/register" -> PublicRoute("RegisterPage")
      [] path = "/dashboard" -> ProtectedRoute("Dashboard")
      [] path = "/pitch-deck" -> ProtectedRoute("PitchDeckPage")
      [] path = "/pitch-deck/1" -> ProtectedRoute("PitchDeckPage")
      [] path = "/data-room" -> ProtectedRoute("DataRoomPage")
      [] path = "/history" -> ProtectedRoute("HistoryPage")
      [] OTHER -> Navigate("/")

\* The page component each protected path is routed to.
ProtectedPage(path) ==
    CASE path = "/dashboard" -> "Dashboard"
      [] path = "/pitch-deck" -> "PitchDeckPage"
      [] path = "/pitch-deck/1" -> "PitchDeckPage"
      [] path = "/data-room" -> "DataRoomPage"
      [] path = "/history" -> "HistoryPage"

\* What is on screen.
rendered == AppRoutes(location)

InitRoutes ==
    /\ location \in Paths
    /\ user \in {<<>>, <<"u1">>}
    /\ authLoading = TRUE
    /\ redirects = 0
    /\ visited = {}
    /\ historyStack = <<>>
    /\ InitPageIdle
    /\ InitApiIdle
    /\ InitViewsIdle

\* history.push: the current location goes behind the new one (the browser
\* history is followed MaxEntries entries back).
Pushed ==
    IF Len(historyStack) < MaxEntries THEN Append(historyStack, location)
    ELSE Append(Tail(historyStack), location)

\* The effect of a rendered <Navigate to replace />: the location is
\* replaced, the entries behind it stay.
Navigate_replace ==
    /\ rendered.kind = "Navigate"
    /\ redirects < MaxRedirects
    /\ location' = rendered.name
    /\ redirects' = redirects + 1
    /\ visited' = visited \cup {location}
    /\ UNCHANGED <<user, authLoading, historyStack>>

\* A link is followed or a path is typed: a navigation of the user's.
go(path) ==
    /\ rendered.kind # "Navigate"
    /\ location' = path
    /\ historyStack' = Pushed
    /\ redirects' = 0
    /\ visited' = {}
    /\ UNCHANGED <<user, authLoading>>

\* AuthProvider has found out who, if anyone, is signed in.
auth_checked(u) ==
    /\ authLoading
    /\ authLoading' = FALSE
    /\ user' = u
    /\ redirects' = 0
    /\ visited' = {}
    /\ UNCHANGED <<location, historyStack>>

\* LoginPage / RegisterPage handleSubmit: await login(...); navigate('/dashboard')
handleSubmit ==
    /\ rendered \in {Page("LoginPage"), Page("RegisterPage")}
    /\ user' = <<"u1">>
    /\ location' = "/dashboard"
    /\ historyStack' = Pushed
    /\ redirects' = 0
    /\ visited' = {}
    /\ UNCHANGED authLoading

\* DashboardLayout handleLogout: logout(); navigate('/')
handleLogout ==
    /\ rendered.kind = "page"
    /\ rendered.name \in {"Dashboard", "PitchDeckPage", "DataRoomPage", "HistoryPage"}
    /\ user' = <<>>
    /\ location' = "/"
    /\ historyStack' = Pushed
    /\ redirects' = 0
    /\ visited' = {}
    /\ UNCHANGED authLoading

\* The Back button of the browser.
back ==
    /\ rendered.kind # "Navigate"
    /\ historyStack # <<>>
    /\ location' = historyStack[Len(historyStack)]
    /\ historyStack' = SubSeq(historyStack, 1, Len(historyStack) - 1)
    /\ redirects' = 0
    /\ visited' = {}
    /\ UNCHANGED <<user, authLoading>>

NextRoutes ==
    \/ Navigate_replace
    \/ back
    \/ \E path \in Paths : go(path)
    \/ \E u \in {<<>>, <<"u1">>} : auth_checked(u)
    \/ handleSubmit
    \/ handleLogout

SpecRoutes == InitRoutes /\ [][NextRoutes /\ UNCHANGED <<pageVars, apiVars, viewVars>>]_vars

\* ============================================================== claims
\* Analyze requests for record id in flight in bag B.
AnalyzeInFlight(id, B) ==
    SumCopies({r \in BagToSet(B) : r.kind = "analyze" /\ r.doc = id}, B)

DisplayedStatus == IF selectedDoc = <<>> THEN <<>> ELSE <<selectedDoc[1].status>>

\* C1: triggering analyze twice in rapid succession on one record never puts
\* two analyze requests for that record in flight at the same time.
C1_NoConcurrentAnalyze ==
    \A id \in DocIds : AnalyzeInFlight(id, reqs) <= 1

\* C2: an analyze request is started only for the selected record and only
\* when its displayed status is uploaded, error or analyzed; none is ever
\* issued for a record displayed as analyzing.
C2_AnalyzeOnlyWhenNotAnalyzing ==
    [][\A id \in DocIds :
          AnalyzeInFlight(id, reqs') > AnalyzeInFlight(id, reqs)
          => /\ selectedDoc # <<>>
             /\ selectedDoc[1].id = id
             /\ selectedDoc[1].status \in {"uploaded", "error", "analyzed"}]_vars

\* C2 witness: the selected record is displayed as analyzing while the page's
\* analyzing flag is down and no request is in flight.
C2_Witness ==
    /\ DisplayedStatus = <<"analyzing">>
    /\ ~analyzing
    /\ reqs = EmptyBag

\* The status steps of the records between two states, within `allowed`.
StatusSteps(allowed) ==
    \A id \in DocIds :
        /\ (srv[id] = <<>> /\ srv'[id] # <<>>) => srv'[id][1].status = "uploaded"
        /\ (srv[id] # <<>> /\ srv'[id] # <<>> /\ srv'[id][1].status # srv[id][1].status)
           => <<srv[id][1].status, srv'[id][1].status>> \in allowed

\* C3 as stated: a record is created as uploaded and its status only moves
\* uploaded -> analyzing -> {analyzed, error}.
C3_OnlyForward ==
    [][StatusSteps({<<"uploaded", "analyzing">>, <<"analyzing", "analyzed">>,
                    <<"analyzing", "error">>})]_vars

\* C3 amended: a record is created as uploaded, enters analyzing from
\* uploaded, error or analyzed, and reaches analyzed or error only from
\* analyzing.
C3_StatusTransitions ==
    [][StatusSteps({<<"uploaded", "analyzing">>, <<"error", "analyzing">>,
                    <<"analyzed", "analyzing">>, <<"analyzing", "analyzed">>,
                    <<"analyzing", "error">>})]_vars

\* C3 witness: a record the page still lists as analyzed is being analysed
\* again.
C3_Witness ==
    \E d \in Range(documents) :
        /\ d.status = "analyzed"
        /\ srv[d.id] # <<>>
        /\ srv[d.id][1].status = "analyzing"

\* C4: for a selected record whose status is analyzed the analysis panel
\* renders analysis content, the raw text or the structured tabs, never the
\* 'Ready to Analyze' placeholder and never nothing.
C4_AnalyzedShowsContent ==
    DisplayedStatus = <<"analyzed">> => Panel.view \in {"raw", "tabs"}

\* C4 witness: an analyzed record with a structured payload is selected on
\* the data-room page.
C4_Witness ==
    /\ page = "data_room"
    /\ DisplayedStatus = <<"analyzed">>
    /\ analysis # <<>>
    /\ analysis[1].raw_feedback = <<>>

\* What the analysis display of the mounted page returns for the selection.
Display ==
    IF page = "data_room" THEN DataRoomAnalysisDisplay(analysis)
    ELSE AnalysisDisplay(analysis)

\* C5: a raw-text fallback payload is displayed as exactly its text and no
\* tabs, a structured payload as the tabs and no raw text.
C5_RawOrTabs ==
    analysis # <<>> =>
        IF analysis[1].raw_feedback # <<>>
        THEN Display = [view |-> "raw", text |-> analysis[1].raw_feedback]
        ELSE Display = [view |-> "tabs", text |-> <<>>]

\* C5 witness: the selected data-room document carries the provider's
\* unparseable answer as its payload.
C5_Witness ==
    /\ page = "data_room"
    /\ analysis # <<>>
    /\ analysis[1].raw_feedback = <<PlainText>>

\* C6: a record displayed as analyzing is eventually displayed with a
\* terminal status, without any further user action.
C6_AnalyzingLeadsToTerminal ==
    (DisplayedStatus = <<"analyzing">>)
        ~> (DisplayedStatus \in {<<"analyzed">>, <<"error">>})

\* The continuation of a failed analyze request r runs in this step.
AnalyzeFailureHandled(r) ==
    /\ r.kind = "analyze" /\ r.stage = "done" /\ ~r.ok
    /\ reqs' = Drop(r)

\* The Analyze or the Re-analyze control of the mounted page is enabled.
AnalyzeControlEnabled ==
    IF page = "data_room"
    THEN analyze_doc_btn_enabled \/ reanalyze_doc_btn_enabled
    ELSE analyze_btn_enabled \/ reanalyze_btn_enabled

\* C7: after a failed analyze request the record is still listed, the
\* analyzing flag is false, no request was issued in its place, and the
\* analyze control of the record, when it is the selected one and the
\* service is not analysing it, is enabled again.
C7_FailedAnalyzeRetained ==
    [][\A r \in BagToSet(reqs) :
          AnalyzeFailureHandled(r)
          => /\ documents' = documents
             /\ analyzing' = FALSE
             /\ Count("analyze", reqs') = Count("analyze", reqs) - 1
             /\ (/\ selectedDoc' # <<>>
                 /\ selectedDoc'[1].id = r.doc
                 /\ srv[r.doc] # <<>>
                 /\ srv[r.doc][1].status # "analyzing")
                => AnalyzeControlEnabled']_vars

ValidationToast == Toast("error", "Please select a category first")

\* C10: a data-room upload request carries a file and a category; an attempt
\* without one of them shows the validation message, sends nothing and
\* leaves the list, the selection and the uploading flag as they were.
C10_UploadNeedsFileAndCategory ==
    [][page = "data_room"
       => /\ \A r \in BagToSet(reqs') :
                r.kind = "upload" => r.file # <<>> /\ r.cat \in {<<c>> : c \in Categories}
          /\ \A f \in Files :
                (handleFileUpload(f) /\ (f = <<>> \/ uploadCategory = ""))
                => /\ toast' = ValidationToast
                   /\ reqs' = reqs
                   /\ documents' = documents
                   /\ selectedDoc' = selectedDoc
                   /\ uploading' = uploading]_vars

\* C10 witness: the validation message is on screen and nothing is uploading.
C10_Witness ==
    /\ page = "data_room"
    /\ toast = ValidationToast
    /\ ~uploading
    /\ Count("upload", reqs) = 0

\* The continuation of an answered request r of the given kind runs in this
\* step: the request leaves the bag.
Settles(r, kind) ==
    /\ r.kind = kind /\ r.stage = "done"
    /\ reqs' = Drop(r)

\* C11: a successful upload created a record with status uploaded, and the
\* page puts that record in front of the list it shows, where it is the
\* newest-created entry, and makes it the selected record.
C11_UploadedAtHead ==
    [][\A r \in BagToSet(reqs) :
          (Settles(r, "upload") /\ r.ok)
          => /\ r.data[1].status = "uploaded"
             /\ documents' = r.data \o documents
             /\ \A d \in Range(documents) : d.id < r.data[1].id
             /\ selectedDoc' = r.data]_vars

\* The records the page shows: the list and the selected record.
Visible == Range(documents) \cup Range(selectedDoc)

\* C12: a failed upload creates nothing.  The service leaves the store as
\* it was; the page leaves the list and the selection as they were, lowers
\* the uploading flag and shows the detail of the failure (or 'Upload
\* failed' when the answer carries none); every record the page shows is one
\* the store created.
C12_FailedUploadCreatesNothing ==
    [][/\ \A r \in BagToSet(reqs) :
             (r.kind = "upload" /\ r.stage = "sent"
              /\ \E q \in BagToSet(reqs') : q.kind = "upload" /\ q.stage = "done" /\ ~q.ok
                                             /\ reqs' = Replace(r, q))
             => srv' = srv
       /\ \A r \in BagToSet(reqs) :
             (Settles(r, "upload") /\ ~r.ok)
             => /\ documents' = documents
                /\ selectedDoc' = selectedDoc
                /\ uploading' = FALSE
                /\ toast' = Toast("error", IF r.detail # <<>> THEN r.detail[1]
                                                              ELSE "Upload failed")
       /\ \A d \in Visible' : Exists(d.id)' \/ d.id \in deleted']_vars

\* C12 witness: the detail of a refused upload is on screen, the flag is
\* down and the list still shows the record it showed before.
C12_Witness ==
    /\ toast = Toast("error", "Unsupported file type")
    /\ ~uploading
    /\ Count("upload", reqs) = 0
    /\ Len(documents) = 1

\* The page has been told that record id is deleted: the store deleted it
\* and no delete request for it is still on its way.
DeleteSettled(id) ==
    /\ id \in deleted
    /\ \A r \in BagToSet(reqs) : ~(r.kind = "delete" /\ r.doc = id)

\* C13: once the delete of a record has succeeded, the record is neither in
\* the displayed list nor the selected record, whatever other requests for
\* it were in flight.
C13_DeletedNeverShown ==
    \A d \in Visible : ~DeleteSettled(d.id)

\* C14: clear_history leaves the caller no record of either type and every
\* record of another user in place; the page empties the displayed history
\* when the clear request has succeeded, not when it is sent, and leaves it
\* unchanged when the request fails.
C14_ClearHistory ==
    [][/\ \A r \in BagToSet(reqs) :
             (r.kind = "clear" /\ r.stage = "sent"
              /\ reqs' = Replace(r, Answered(r, TRUE, <<>>, <<>>)))
             => /\ {e \in records' : e.owner = Caller} = {}
                /\ {e \in records' : e.owner # Caller} = {e \in records : e.owner # Caller}
       /\ \A r \in BagToSet(reqs) :
             Settles(r, "clear")
             => IF r.ok THEN history' = <<>> ELSE history' = history
       /\ Count("clear", reqs') > Count("clear", reqs) => history' = history]_vars

\* C14 witness: the history was cleared; the caller has no record left and
\* the other user still has both of theirs.
C14_Witness ==
    /\ toast = Toast("success", "History cleared successfully")
    /\ history = <<>>
    /\ Owns(Caller) = {}
    /\ Owns("u2") = OthersRecords

\* Positions of the displayed history on the given calendar day.
OnDay(date) == {i \in 1..Len(history) : toDateString(history[i].created_at) = date}

FirstOnDay(date) == CHOOSE i \in OnDay(date) : \A j \in OnDay(date) : i <= j

\* C16: the displayed history is sorted by created_at descending; grouping it
\* by calendar day puts every entry in exactly one group, keeps the order of
\* the entries inside each group, and lists the groups in the order of their
\* first entry, the newest day first.
C16_GroupedByDate ==
    LET g == groupedHistory
    IN /\ \A i, j \in 1..Len(history) :
              i < j => history[i].created_at >= history[j].created_at
       /\ \A i \in 1..Len(history) :
              Cardinality({kj \in (1..Len(g)) \X (1..Len(history)) :
                              /\ kj[2] <= Len(g[kj[1]].items)
                              /\ g[kj[1]].items[kj[2]] = history[i]}) = 1
       /\ \A k \in 1..Len(g) :
              g[k].items = SelectSeq(history,
                                     LAMBDA h : toDateString(h.created_at) = g[k].date)
       /\ \A k, l \in 1..Len(g) :
              k < l => /\ g[k].date > g[l].date
                       /\ FirstOnDay(g[k].date) < FirstOnDay(g[l].date)

\* C16 witness: three entries are displayed in two groups.
C16_Witness ==
    /\ Len(history) = 3
    /\ Len(groupedHistory) = 2
    /\ \E k \in 1..Len(groupedHistory) : Len(groupedHistory[k].items) = 2

\* C17: every displayed history entry has type pitch_deck or data_room, and
\* 'Total Items' equals 'Pitch Decks' plus 'Data Room Docs'.
C17_TotalIsSumOfTypes ==
    /\ \A h \in Range(history) : h.type \in Types
    /\ TotalItems = PitchDecksCard + DataRoomDocsCard

\* C17 witness: entries of both types are displayed after a single delete.
C17_Witness ==
    /\ toast = Toast("success", "Item deleted successfully")
    /\ PitchDecksCard > 0
    /\ DataRoomDocsCard > 0

RECURSIVE SumValues(_)
\* The sum of the values of a sequence of numbers.
SumValues(q) == IF q = <<>> THEN 0 ELSE Head(q) + SumValues(Tail(q))

\* C15: the category counts of the loaded stats have one entry for each of
\* the eight category keys and sum to total_documents; the chart data has
\* one entry per entry of documents_by_category, zero counts included, named
\* after its key and with its count as value, so the chart values sum to
\* total_documents too.
C15_CategoryCounts ==
    stats # <<>> =>
        LET entries == stats[1].documents_by_category
            chart == getCategoryChartData
        IN /\ Len(entries) = Cardinality(AllCategories)
           /\ {entries[i][1] : i \in 1..Len(entries)} = AllCategories
           /\ SumValues([i \in 1..Len(entries) |-> entries[i][2]]) = stats[1].total_documents
           /\ Len(chart) = Len(entries)
           /\ \A i \in 1..Len(entries) :
                  /\ chart[i].name = ChartName(entries[i][1])
                  /\ chart[i].value = entries[i][2]
           /\ SumValues([i \in 1..Len(chart) |-> chart[i].value]) = stats[1].total_documents

\* C15 witness: loaded stats with documents in two categories at least and
\* none in another.
C15_Witness ==
    /\ stats # <<>>
    /\ stats[1].total_documents >= 2
    /\ \E i \in 1..Len(CategoryKeys) : stats[1].documents_by_category[i][2] = 0

\* C20: with stats loaded, the category distribution shows 'No documents
\* yet' exactly when the user has no data-room documents.
C20_EmptyStateIffNoDocuments ==
    stats # <<>> => (no_documents_yet_shown <=> stats[1].total_documents = 0)

\* C18: on the pitch-deck page opened for a deck id, the service answers
\* the single-deck request with the deck only if it holds that id; a failed
\* single-deck load selects nothing and shows an error message; a successful
\* one selects the deck with that id; and the list response never touches
\* the selection, so the first deck of the list is not substituted whichever
\* response arrives first.
C18_DeckIdLoad ==
    [][(page = "pitch_deck" /\ deckId # <<>>)
       => /\ \A r \in BagToSet(reqs), q \in BagToSet(reqs') :
                (r.kind = "loadSingleDeck" /\ r.stage = "sent"
                 /\ q.stage = "done" /\ reqs' = Replace(r, q))
                => (q.ok => Exists(r.doc) /\ q.data = srv[r.doc])
          /\ \A r \in BagToSet(reqs) :
                Settles(r, "loadSingleDeck")
                => IF r.ok
                   THEN /\ selectedDoc' = r.data
                        /\ selectedDoc'[1].id = deckId[1]
                   ELSE /\ selectedDoc' = selectedDoc
                        /\ toast' = Toast("error", "Failed to load pitch deck")
          /\ \A r \in BagToSet(reqs) :
                Settles(r, "loadPitchDecks") => selectedDoc' = selectedDoc]_vars

\* C18 witness: the page was opened for an id the store does not hold; the
\* list with a deck in it is displayed, no deck is selected and the error
\* message is on screen.
C18_Witness ==
    /\ page = "pitch_deck"
    /\ deckId # <<>>
    /\ ~Exists(deckId[1])
    /\ Len(documents) > 0
    /\ selectedDoc = <<>>
    /\ toast = Toast("error", "Failed to load pitch deck")

\* C19: the handling of every failed request shows an error message.
C19_EveryFailureShown ==
    [][\A r \in BagToSet(reqs) :
          (r.stage = "done" /\ ~r.ok /\ reqs' = Drop(r))
          => /\ toast' # <<>>
             /\ toast'[1].level = "error"]_vars

\* A request r that this step sends.
Sends(r) == CopiesIn(r, reqs') > CopiesIn(r, reqs) /\ r.stage = "sent"

\* C21: the delete of a history entry goes to the pitch-deck endpoint exactly
\* when the entry's type is pitch_deck and to the data-room endpoint
\* otherwise; when it has succeeded the page removes that entry, and no
\* other, from the displayed history, keeping the order of the rest; when it
\* has failed the displayed history stays as it is.
C21_HistoryDelete ==
    [][page = "history"
       => /\ \A r \in BagToSet(reqs') :
                (r.kind = "delete" /\ Sends(r))
                => \E h \in Range(history) :
                      /\ h.id = r.doc
                      /\ r.api = "pitch-deck" <=> h.type = "pitch_deck"
                      /\ r.api = "data-room" <=> h.type # "pitch_deck"
          /\ \A r \in BagToSet(reqs) :
                Settles(r, "delete")
                => IF r.ok
                   THEN /\ history' = SelectSeq(history, LAMBDA h : h.id # r.doc)
                        /\ Len(history') >= Len(history) - 1
                        /\ \A h \in Range(history) : h.id # r.doc => h \in Range(history')
                   ELSE history' = history]_vars

\* C21 witness: one entry was deleted and entries of both types are still
\* displayed, all of them records the caller still has.
C21_Witness ==
    /\ page = "history"
    /\ toast = Toast("success", "Item deleted successfully")
    /\ Len(history) = MaxHistory - 1
    /\ \E h \in Range(history) : h.type = "pitch_deck"
    /\ \E h \in Range(history) : h.type = "data_room"
    /\ \A h \in Range(history) : \E e \in Owns(Caller) : e.id = h.id
    /\ reqs = EmptyBag

\* The ids of the records in a nullable value.
IdsOf(s) == {d.id : d \in Range(s)}

\* C22: the completion of an analyze request leaves every list entry of
\* another record as it was, puts the answer in the place of the analysed
\* record when the request succeeded, and leaves selected the record (by id)
\* that was selected just before.
C22_AnalyzeCompletionFrame ==
    [][\A r \in BagToSet(reqs) :
          Settles(r, "analyze")
          => /\ Len(documents') = Len(documents)
             /\ \A i \in 1..Len(documents) :
                    IF documents[i].id = r.doc /\ r.ok
                    THEN documents'[i] = r.data[1]
                    ELSE documents'[i] = documents[i]
             /\ IdsOf(selectedDoc') = IdsOf(selectedDoc)]_vars

\* The list part of C22 alone.
C22_ListFrame ==
    [][\A r \in BagToSet(reqs) :
          Settles(r, "analyze")
          => /\ Len(documents') = Len(documents)
             /\ \A i \in 1..Len(documents) :
                    IF documents[i].id = r.doc /\ r.ok
                    THEN documents'[i] = r.data[1]
                    ELSE documents'[i] = documents[i]]_vars

\* C23: on the pitch-deck and data-room pages the analyzing flag is up
\* exactly while an analyze request of the page is in flight.
C23_AnalyzingFlag ==
    page \in {"data_room", "pitch_deck"} => (analyzing <=> Count("analyze", reqs) > 0)

\* No list request of the data-room page is outstanding.
ListRequestsDone == Count("loadData", reqs) = 0 /\ Count("loadDocuments", reqs) = 0

\* C24: on the data-room page, once every list request has completed, the
\* displayed documents are the ones the service lists for the selected
\* category filter (all of them when none is selected).
C24_ListMatchesFilter ==
    (page = "data_room" /\ ListRequestsDone) => documents = SrvList(selectedCategory)

\* The caller's data-room documents of a category, as the store has them.
StoredIn(c) == {i \in DocIds : Exists(i) /\ srv[i][1].category = c}

\* C26: once the lists are loaded, each category card of the data-room page
\* shows how many data-room documents of that category the user has,
\* whichever category filter is selected.
C26_CardCounts ==
    (page = "data_room" /\ ListRequestsDone)
    => \A c \in categories : getDocCountByCategory(c) = Cardinality(StoredIn(c))

\* C25: on the data-room page, with a category filter selected and no list
\* request in flight, every displayed document has the selected category.
C25_ListWithinFilter ==
    (page = "data_room" /\ selectedCategory # <<>> /\ ListRequestsDone)
    => \A d \in Range(documents) : d.category = selectedCategory[1]

\* The upload part of C25 alone: the completion of an upload leaves the
\* displayed list within the selected category filter.
C25_UploadWithinFilter ==
    [][\A r \in BagToSet(reqs) :
          (page = "data_room" /\ Settles(r, "upload") /\ selectedCategory # <<>>
           /\ ListRequestsDone
           /\ \A d \in Range(documents) : d.category = selectedCategory[1])
          => \A d \in Range(documents') : d.category = selectedCategory[1]]_vars

\* C27: for every protected path, the page is rendered only when auth
\* loading is false and a user is present; with loading false and no user
\* the route redirects to /login; while loading is true it renders neither
\* the page nor a redirect.
C27_ProtectedRoutes ==
    \A path \in ProtectedPaths :
       LET e == AppRoutes(path)
       IN /\ e.kind = "page" <=> (~authLoading /\ user # <<>>)
          /\ e.kind = "page" => e.name = ProtectedPage(path)
          /\ (~authLoading /\ user = <<>>) => e = Navigate("/login")
          /\ authLoading => e.kind \notin {"page", "Navigate"}

\* C27 witness: a visitor who is not signed in opened a protected path and
\* was sent to /login, where the login page is rendered.
C27_Witness ==
    /\ ~authLoading /\ user = <<>>
    /\ redirects = 1
    /\ visited # {} /\ visited \subseteq ProtectedPaths
    /\ rendered = Page("LoginPage")

\* Where a path leads after the redirect its route renders, if it renders one.
Target(path) ==
    IF AppRoutes(path).kind = "Navigate" THEN AppRoutes(path).name ELSE path

\* C28: with auth loading false, from every path a page is rendered after
\* at most two redirects; a chain of redirects never comes back to a path it
\* left; and '/' renders the landing page whatever the auth state.
C28_RedirectsTerminate ==
    /\ ~authLoading
       => /\ \A path \in Paths : AppRoutes(Target(Target(path))).kind = "page"
          /\ redirects <= 2
          /\ rendered.kind = "Navigate" => rendered.name \notin visited \cup {location}
    /\ AppRoutes("/") = Page("LandingPage")

\* C28 witness: a signed-in user opened /login or /register and, one
\* redirect later, sees the dashboard.
C28_Witness ==
    /\ ~authLoading /\ user # <<>>
    /\ redirects = 1
    /\ visited # {} /\ visited \subseteq PublicPaths
    /\ rendered = Page("Dashboard")

\* C29: on the pitch-deck and data-room pages at most one upload request is
\* in flight, and the uploading flag is up exactly while one is.
C29_OneUploadInFlight ==
    page \in {"data_room", "pitch_deck"}
    => /\ Count("upload", reqs) <= 1
       /\ uploading <=> Count("upload", reqs) > 0

\* C29 on the data-room page alone, where file-input is disabled while
\* uploading.
C29_DataRoomOneUpload ==
    page = "data_room"
    => /\ Count("upload", reqs) <= 1
       /\ uploading <=> Count("upload", reqs) > 0

====
